---- MODULE Spec2Model ----
(***************************************************************************)
(* Model of src/script.js: the ExpenseTracker class, its localStorage     *)
(* snapshots and the DOM it renders into.                                  *)
(*                                                                         *)
(* Numbers.  A JavaScript number is a tagged record.  Finite numbers are   *)
(* counted in eighths (v = 8 * value): every multiple of 1/8 of small      *)
(* magnitude is an exact IEEE-754 double and sums of them are exact, so    *)
(* the arithmetic below is the arithmetic the engine performs on the       *)
(* inputs the model draws.  Infinity, NaN and the JSON value null are      *)
(* values of their own.  +0 and -0 are one value (no code path of          *)
(* script.js tells them apart).                                            *)
(*                                                                         *)
(* Strings.  The two text fields are sequences of one-character strings,   *)
(* so that trim() and parseFloat() are computed character by character.    *)
(***************************************************************************)
EXTENDS Integers, Sequences, FiniteSets

\* ------------------------------------------------------------------ bounds
\* The longest sequence of transactions, and the last value of the clock.
MaxTx == 2
MaxClock == 2

\* ----------------------------------------------------------- JS numbers
Fin(n) == [k |-> "fin", v |-> n]
PosInf == [k |-> "inf", v |-> 1]
NegInf == [k |-> "inf", v |-> -1]
NaN == [k |-> "nan", v |-> 0]
Null == [k |-> "null", v |-> 0]

\* ToNumber as applied by +, <, > and Math.abs: null converts to 0.
ToNumber(x) == IF x.k = "null" THEN Fin(0) ELSE x

\* acc + item
JSAdd(a, b) ==
  LET x == ToNumber(a)
      y == ToNumber(b)
  IN  IF x.k = "nan" \/ y.k = "nan" THEN NaN
      ELSE IF x.k = "inf" /\ y.k = "inf" THEN (IF x.v = y.v THEN x ELSE NaN)
      ELSE IF x.k = "inf" THEN x
      ELSE IF y.k = "inf" THEN y
      ELSE Fin(x.v + y.v)

\* item < 0
JSLt0(a) == LET x == ToNumber(a) IN x.k # "nan" /\ x.v < 0

\* item > 0
JSGt0(a) == LET x == ToNumber(a) IN x.k # "nan" /\ x.v > 0

\* Math.abs
MathAbs(a) ==
  LET x == ToNumber(a)
  IN  IF x.k = "nan" THEN NaN
      ELSE IF x.k = "inf" THEN PosInf
      ELSE Fin(IF x.v < 0 THEN -(x.v) ELSE x.v)

\* unary minus
JSNeg(a) ==
  LET x == ToNumber(a)
  IN  IF x.k = "nan" THEN NaN ELSE [k |-> x.k, v |-> -(x.v)]

\* A validation that lets every amount through.
isNaN_never(a) == FALSE

isNaN(a) == ToNumber(a).k = "nan"

\* Number.prototype.toFixed(2): the decimal string, as sign and hundredths.
\* n is the integer nearest to 100 * |x|, the larger one on a tie.
toFixed2(a) ==
  LET x == ToNumber(a)
      m == IF x.v < 0 THEN -(x.v) ELSE x.v
  IN  IF x.k = "nan" THEN [k |-> "NaN", neg |-> FALSE, cents |-> 0]
      ELSE IF x.k = "inf" THEN [k |-> "Infinity", neg |-> x.v < 0, cents |-> 0]
      ELSE [k |-> "digits", neg |-> x.v < 0, cents |-> (25 * m + 1) \div 2]

\* ----------------------------------------------------------- JS strings
IsWhite(c) == c = " "

RECURSIVE TrimStart(_)
TrimStart(s) ==
  IF s = <<>> THEN <<>>
  ELSE IF IsWhite(Head(s)) THEN TrimStart(Tail(s))
  ELSE s

RECURSIVE TrimEnd(_)
TrimEnd(s) ==
  IF s = <<>> THEN <<>>
  ELSE IF IsWhite(s[Len(s)]) THEN TrimEnd(SubSeq(s, 1, Len(s) - 1))
  ELSE s

\* String.prototype.trim
Trim(s) == TrimEnd(TrimStart(s))

Digits == {"0", "1", "2", "3", "4", "5", "6", "7", "8", "9"}

DigitVal(c) ==
  CASE c = "0" -> 0 [] c = "1" -> 1 [] c = "2" -> 2 [] c = "3" -> 3
    [] c = "4" -> 4 [] c = "5" -> 5 [] c = "6" -> 6 [] c = "7" -> 7
    [] c = "8" -> 8 [] c = "9" -> 9

\* The longest prefix of s made of decimal digits.
RECURSIVE DigitPrefix(_)
DigitPrefix(s) ==
  IF s = <<>> \/ Head(s) \notin Digits THEN <<>>
  ELSE <<Head(s)>> \o DigitPrefix(Tail(s))

RECURSIVE DecValue(_, _)
DecValue(ds, acc) ==
  IF ds = <<>> THEN acc ELSE DecValue(Tail(ds), 10 * acc + DigitVal(Head(ds)))

RECURSIVE Pow10(_)
Pow10(n) == IF n = 0 THEN 1 ELSE 10 * Pow10(n - 1)

InfinityWord == <<"I", "n", "f", "i", "n", "i", "t", "y">>

StartsWith(s, p) == Len(s) >= Len(p) /\ SubSeq(s, 1, Len(p)) = p

\* parseFloat: leading white space, an optional sign, then "Infinity" or the
\* longest prefix that is a decimal literal (digits, an optional point and
\* digits); NaN when there is none.  Trailing characters are ignored.  The
\* value is returned in eighths.  Exponents are not modelled: no input of
\* the model holds an "e".
parseFloat(str) ==
  LET s == TrimStart(str)
      signed == s # <<>> /\ Head(s) \in {"-", "+"}
      sgn == IF s # <<>> /\ Head(s) = "-" THEN -1 ELSE 1
      r == IF signed THEN Tail(s) ELSE s
      ip == DigitPrefix(r)
      afterInt == SubSeq(r, Len(ip) + 1, Len(r))
      hasDot == afterInt # <<>> /\ Head(afterInt) = "."
      fp == IF hasDot THEN DigitPrefix(Tail(afterInt)) ELSE <<>>
      num == DecValue(ip \o fp, 0)
  IN  IF StartsWith(r, InfinityWord) THEN [k |-> "inf", v |-> sgn]
      ELSE IF ip = <<>> /\ fp = <<>> THEN NaN
      ELSE Fin(sgn * ((num * 8) \div Pow10(Len(fp))))

\* ------------------------------------------------------------ JSON, storage
\* A localStorage item: absent (getItem returns null), a string that is not
\* JSON ("malformed"), the JSON text of a falsy value such as "null"
\* ("falsy"), or the JSON text of an array ("json", doc its elements).
Absent == [kind |-> "absent", doc |-> <<>>]
Malformed == [kind |-> "malformed", doc |-> <<>>]
Falsy == [kind |-> "falsy", doc |-> <<>>]

\* JSON.stringify of a number: the non-finite numbers are written as null.
JSONnumber(a) == IF a.k = "fin" THEN a ELSE Null

JSONtransaction(t) ==
  [id |-> t.id, text |-> t.text, amount |-> JSONnumber(t.amount),
   category |-> t.category]

\* JSON.stringify(this.transactions)
JSONstringify(txs) ==
  [kind |-> "json", doc |-> [i \in 1..Len(txs) |-> JSONtransaction(txs[i])]]

\* JSON.parse(localStorage.getItem(key)) throws a SyntaxError.
JSONparseThrows(item) == item.kind = "malformed"

\* JSON.parse(localStorage.getItem(key)) || [] when the parse returns:
\* absent gives JSON.parse(null) = null, a falsy value gives itself.
ParseOrEmpty(item) == IF item.kind = "json" THEN item.doc ELSE <<>>

\* ------------------------------------------------------------------ inputs
\* What the handler finds when the form is submitted: the label field, the
\* amount field, the radio button that is checked ("none": neither), and the
\* category drop-down: whether the element exists (this.categorySelect is
\* null on a page without it) and the value it holds, "" (the first option)
\* or one of the known categories.
Blank == <<" ">>
Label == <<" ", "a", " ">>
Eighth == <<"-", ".", "1", "2", "5", "x">>
NoSelect == [present |-> FALSE, value |-> ""]
Selected(v) == [present |-> TRUE, value |-> v]

FormInputs ==
  { [text |-> Blank, amount |-> Eighth, checked |-> "income", select |-> Selected("")],
    [text |-> Label, amount |-> Blank, checked |-> "expense", select |-> NoSelect],
    [text |-> Label, amount |-> <<"x">>, checked |-> "income", select |-> Selected("Food")],
    [text |-> Label, amount |-> Eighth, checked |-> "income", select |-> Selected("")],
    [text |-> Label, amount |-> Eighth, checked |-> "expense", select |-> Selected("Food")],
    [text |-> Label, amount |-> Eighth, checked |-> "none", select |-> NoSelect],
    [text |-> Label, amount |-> InfinityWord, checked |-> "income", select |-> Selected("Food")],
    [text |-> Label, amount |-> InfinityWord, checked |-> "expense", select |-> NoSelect] }

\* The forms that can be submitted when the drop-down was populated from cats.
Forms(cats) ==
  {f \in FormInputs : f.select.value \in {""} \cup {cats[i] : i \in DOMAIN cats}}

StoredCategories == {Absent, Malformed, [kind |-> "json", doc |-> <<"Food">>]}

StoredTransactions == {Absent, Malformed, Falsy}

\* ------------------------------------------------------------------- state
VARIABLES
  storage,        \* localStorage: [transactions, categories]
  status,         \* "unloaded", "ready" (window.tracker set), "failed" (constructor threw)
  transactions,   \* this.transactions
  categories,     \* this.categories
  list,           \* children of this.list
  balance,        \* this.balance.textContent
  money_plus,     \* this.money_plus.textContent
  money_minus,    \* this.money_minus.textContent
  now,            \* the value Date.now() returns
  lastCall        \* the last handler run: "load", "add", "remove", or the alert shown

vars ==
  <<storage, status, transactions, categories, list, balance, money_plus,
    money_minus, now, lastCall>>

\* The text the static page shows before any script has written to it.
PageText == [prefix |-> "html", num |-> [k |-> "digits", neg |-> FALSE, cents |-> 0]]

\* The tracker object together with the DOM and the storage it writes.
Self ==
  [transactions |-> transactions, categories |-> categories, list |-> list,
   balance |-> balance, money_plus |-> money_plus, money_minus |-> money_minus,
   storage |-> storage]

\* ----------------------------------------------------------------- methods
\* amounts.reduce((acc, item) => acc + item, 0)
RECURSIVE reduceSum(_, _)
reduceSum(amounts, acc) ==
  IF amounts = <<>> THEN acc
  ELSE reduceSum(Tail(amounts), JSAdd(acc, Head(amounts)))

RECURSIVE filterPositive(_)
filterPositive(amounts) ==
  IF amounts = <<>> THEN <<>>
  ELSE IF JSGt0(Head(amounts))
       THEN <<Head(amounts)>> \o filterPositive(Tail(amounts))
       ELSE filterPositive(Tail(amounts))

RECURSIVE filterNegative(_)
filterNegative(amounts) ==
  IF amounts = <<>> THEN <<>>
  ELSE IF JSLt0(Head(amounts))
       THEN <<Head(amounts)>> \o filterNegative(Tail(amounts))
       ELSE filterNegative(Tail(amounts))

updateValues(s) ==
  LET amounts == [i \in 1..Len(s.transactions) |-> s.transactions[i].amount]
      total == reduceSum(amounts, Fin(0))
      income == reduceSum(filterPositive(amounts), Fin(0))
      expense == reduceSum(filterNegative(amounts), Fin(0))
  IN  [s EXCEPT !.balance = [prefix |-> "$", num |-> toFixed2(total)],
                !.money_plus = [prefix |-> "+$", num |-> toFixed2(income)],
                !.money_minus = [prefix |-> "-$", num |-> toFixed2(MathAbs(expense))]]

updateLocalStorage(s) ==
  [s EXCEPT !.storage.transactions = JSONstringify(s.transactions)]

\* The li element built for one transaction.
ListItem(t) ==
  [id |-> t.id,
   class |-> IF JSLt0(t.amount) THEN "minus" ELSE "plus",
   text |-> t.text,
   category |-> t.category,
   amount |-> [prefix |-> IF JSLt0(t.amount) THEN "-$" ELSE "+$",
               num |-> toFixed2(MathAbs(t.amount))]]

addTransactionDOM(s, t) == [s EXCEPT !.list = Append(s.list, ListItem(t))]

RECURSIVE forEachAddDOM(_, _)
forEachAddDOM(s, txs) ==
  IF txs = <<>> THEN s
  ELSE forEachAddDOM(addTransactionDOM(s, Head(txs)), Tail(txs))

\* init() without the clearing of the list.
init_noClear(s) == updateValues(forEachAddDOM(s, s.transactions))

init(s) ==
  updateValues(forEachAddDOM([s EXCEPT !.list = <<>>], s.transactions))

\* A removal that takes out the first match only (findIndex and splice).
RECURSIVE filterOut_first(_, _)
filterOut_first(txs, id) ==
  IF txs = <<>> THEN <<>>
  ELSE IF Head(txs).id # id
       THEN <<Head(txs)>> \o filterOut_first(Tail(txs), id)
       ELSE Tail(txs)

\* A removal that drops the match and everything after it.
RECURSIVE filterOut_truncate(_, _)
filterOut_truncate(txs, id) ==
  IF txs = <<>> THEN <<>>
  ELSE IF Head(txs).id # id
       THEN <<Head(txs)>> \o filterOut_truncate(Tail(txs), id)
       ELSE <<>>

\* this.transactions.filter(t => t.id !== id)
RECURSIVE filterOut(_, _)
filterOut(txs, id) ==
  IF txs = <<>> THEN <<>>
  ELSE IF Head(txs).id # id
       THEN <<Head(txs)>> \o filterOut(Tail(txs), id)
       ELSE filterOut(Tail(txs), id)

\* A removal that re-renders the list but leaves the totals as they were.
removeTransaction_staleTotals(s, id) ==
  LET u == updateLocalStorage([s EXCEPT !.transactions = filterOut(s.transactions, id)])
  IN  forEachAddDOM([u EXCEPT !.list = <<>>], u.transactions)

removeTransaction(s, id) ==
  init(updateLocalStorage([s EXCEPT !.transactions = filterOut(s.transactions, id)]))

getSelectedTransactionType(checked) ==
  IF checked = "none" THEN "expense" ELSE checked

\* The sign is taken from the text of the amount and the type is ignored.
signAmount_ignoreType(abs, type) == abs

\* if (type === 'expense') amount = -amount
signAmount(abs, type) == IF type = "expense" THEN JSNeg(abs) ELSE abs

\* The category is stored as selected, empty or not.
defaultCategory_asIs(category) == category

\* category || 'Uncategorized'
defaultCategory(category) == IF category # "" THEN category ELSE "Uncategorized"

\* The transaction object the submit handler builds once the fields have
\* passed validation.  text and amountValue are the trimmed field values,
\* checked the radio that is checked, select the value of the category
\* drop-down, present whether the drop-down exists, clock the value of
\* Date.now().
newTransaction(text, amountValue, checked, select, present, clock) ==
  LET abs == MathAbs(parseFloat(amountValue))
      type == getSelectedTransactionType(checked)
      category == IF present /\ select # "" THEN select ELSE ""
  IN  [id |-> clock, text |-> text, amount |-> signAmount(abs, type),
       category |-> defaultCategory(category)]

\* The outcome of the submit handler: the alert shown ("" when none) and the
\* tracker afterwards.  The two fields the handler clears at the end are
\* inputs here: the next submit reads what the user has typed since.
addTransaction(s, textValue, amountValue, checked, select, present, clock) ==
  LET text == Trim(textValue)
      amountTrim == Trim(amountValue)
      transaction == newTransaction(text, amountTrim, checked, select, present, clock)
      pushed == [s EXCEPT !.transactions = Append(s.transactions, transaction)]
  IN  IF text = <<>> \/ amountTrim = <<>>
        THEN [alert |-> "Please enter text and amount", self |-> s]
      ELSE IF isNaN(MathAbs(parseFloat(amountTrim)))
        THEN [alert |-> "Please enter a valid number", self |-> s]
      ELSE [alert |-> "",
            self |-> updateValues(addTransactionDOM(updateLocalStorage(pushed),
                                                    transaction))]

\* ----------------------------------------------------------------- actions
\* The tracker, the DOM and the storage become those of s.
Store(s) ==
  \E q \in {s} :
    /\ transactions' = q.transactions
    /\ categories' = q.categories
    /\ list' = q.list
    /\ balance' = q.balance
    /\ money_plus' = q.money_plus
    /\ money_minus' = q.money_minus
    /\ storage' = q.storage

Init ==
  /\ storage \in [transactions : StoredTransactions, categories : StoredCategories]
  /\ status = "unloaded"
  /\ transactions = <<>>
  /\ categories = <<>>
  /\ list = <<>>
  /\ balance = PageText
  /\ money_plus = PageText
  /\ money_minus = PageText
  /\ now = 1
  /\ lastCall = "none"

\* A page load or refresh: a fresh document, then new ExpenseTracker().
\* The constructor throws at the first JSON.parse that fails; window.tracker
\* is then never set and no submit listener is bound.
DOMContentLoaded ==
  LET fresh == [transactions |-> <<>>, categories |-> <<>>, list |-> <<>>,
                balance |-> PageText, money_plus |-> PageText,
                money_minus |-> PageText, storage |-> storage]
      loaded == [fresh EXCEPT !.transactions = ParseOrEmpty(storage.transactions),
                              !.categories = ParseOrEmpty(storage.categories)]
  IN  /\ lastCall' = "load"
      /\ UNCHANGED now
      /\ IF JSONparseThrows(storage.transactions) \/ JSONparseThrows(storage.categories)
           THEN status' = "failed" /\ Store(fresh)
           ELSE status' = "ready" /\ Store(init(loaded))

\* The form is submitted with the given field values.
Submit ==
  /\ status = "ready"
  /\ \E f \in Forms(categories) :
       \E r \in {addTransaction(Self, f.text, f.amount, f.checked, f.select.value,
                               f.select.present, now)} :
           /\ r.alert = "" => Len(transactions) < MaxTx
           /\ Store(r.self)
           /\ lastCall' = IF r.alert = "" THEN "add" ELSE r.alert
  /\ UNCHANGED <<status, now>>

\* A delete button is clicked, or window.tracker.removeTransaction(id) is
\* called from elsewhere.
Remove ==
  /\ status = "ready"
  /\ \E id \in 1..MaxClock :
       /\ Store(removeTransaction(Self, id))
       /\ lastCall' = "remove"
  /\ UNCHANGED <<status, now>>

\* Time passes.
Tick ==
  /\ now < MaxClock
  /\ now' = now + 1
  /\ UNCHANGED <<storage, status, transactions, categories, list, balance,
                 money_plus, money_minus, lastCall>>

Next == DOMContentLoaded \/ Submit \/ Remove \/ Tick

Spec == Init /\ [][Next]_vars

\* ------------------------------------------------------------------ claims
Ready == status = "ready"

Ids == 1..MaxClock

Last(q) == q[Len(q)]

\* The handler's outcome for a form, in the current state.
Submitted(f) ==
  addTransaction(Self, f.text, f.amount, f.checked, f.select.value,
                 f.select.present, now)

\* The transaction the handler builds for a form.
Built(f) ==
  newTransaction(Trim(f.text), Trim(f.amount), f.checked, f.select.value,
                 f.select.present, now)

SameButId(t, u) ==
  t.text = u.text /\ t.amount = u.amount /\ t.category = u.category

\* A form the handler must reject: a field blank once trimmed, or an amount
\* with no number at its start.
Rejected(f) ==
  \/ Trim(f.text) = <<>>
  \/ Trim(f.amount) = <<>>
  \/ parseFloat(Trim(f.amount)).k = "nan"

\* When the last handler run was an accepted submit, the transaction at the
\* end of the sequence is the one built from an accepted form, with the time
\* of the submit as its identifier.
AddedLast ==
  lastCall = "add" =>
    /\ transactions # <<>>
    /\ Last(transactions).id <= now
    /\ \E f \in Forms(categories) :
         ~Rejected(f) /\ SameButId(Last(transactions), Built(f))

\* The sum of the amounts at the indices I, taken in any order.
RECURSIVE SumAt(_, _)
SumAt(txs, I) ==
  IF I = {} THEN Fin(0)
  ELSE LET i == CHOOSE j \in I : TRUE
       IN  JSAdd(txs[i].amount, SumAt(txs, I \ {i}))

\* The k-th smallest element of a set of indices.
Kth(I, k) == CHOOSE i \in I : Cardinality({j \in I : j < i}) = k - 1

\* C1: once the constructor has run, the tracker exists, and a collection
\* whose stored value is absent or unparsable is empty.
C1_LoadNeverFails ==
  lastCall = "load" =>
    /\ status = "ready"
    /\ storage.transactions.kind \in {"absent", "malformed"} => transactions = <<>>
    /\ storage.categories.kind \in {"absent", "malformed"} => categories = <<>>

\* C2: no two transactions of the sequence have the same identifier.
C2_UniqueIds ==
  \A i, j \in DOMAIN transactions :
    i # j => transactions[i].id # transactions[j].id

\* C3: a submit with a blank label, a blank amount or an amount that is not a
\* number shows an alert and leaves the sequence, the stored snapshot, the
\* rendered list and the totals as they were.
C3_RejectedSubmitChangesNothing ==
  Ready =>
    \A f \in Forms(categories) :
      Rejected(f) =>
        \A r \in {Submitted(f)} : r.alert # "" /\ r.self = Self

C3_Witness ==
  /\ Ready
  /\ lastCall = "Please enter a valid number"
  /\ Len(transactions) = 2
  /\ storage.transactions.kind = "json"

\* C4: what a new tracker would load from the storage is the sequence and the
\* categories the live tracker holds.
C4_RoundTrip ==
  Ready =>
    /\ ~JSONparseThrows(storage.transactions)
    /\ ParseOrEmpty(storage.transactions) = transactions
    /\ ParseOrEmpty(storage.categories) = categories

C6_SignPolicy ==
  /\ AddedLast
  /\ \A f \in Forms(categories) :
       Ready /\ ~Rejected(f) =>
         LET p == parseFloat(Trim(f.amount))
             m == [k |-> p.k, v |-> IF p.v < 0 THEN -(p.v) ELSE p.v]
             t == Built(f)
         IN  /\ f.checked = "income" => t.amount = m /\ ~JSLt0(t.amount)
             /\ f.checked # "income" =>
                  t.amount = [k |-> m.k, v |-> -(m.v)] /\ ~JSGt0(t.amount)

C6_Witness ==
  /\ Ready
  /\ lastCall = "add"
  /\ Len(transactions) = 2
  /\ transactions[1].amount = Fin(1)
  /\ transactions[2].amount = NegInf
  /\ transactions[2].id = 2

\* C7: no transaction of the sequence has an empty category, and an accepted
\* submit stores the selected category when there is one and "Uncategorized"
\* otherwise.
C7_CategoryPresent ==
  /\ \A i \in DOMAIN transactions : transactions[i].category # ""
  /\ AddedLast
  /\ \A f \in Forms(categories) :
       Ready /\ ~Rejected(f) =>
         Built(f).category
           = IF f.select.present /\ f.select.value # "" THEN f.select.value
             ELSE "Uncategorized"

C7_Witness ==
  /\ Ready
  /\ lastCall = "add"
  /\ Len(transactions) = 2
  /\ transactions[1].category = "Food"
  /\ transactions[2].category = "Uncategorized"
  /\ transactions[2].id = 1

\* C8: removeTransaction(id) keeps the transactions with another identifier,
\* as they are and in their order, and keeps the categories; with no
\* transaction of that identifier the sequence is what it was.
C8_RemoveKeepsTheOthers ==
  Ready =>
    \A id \in Ids :
      \A r \in {removeTransaction(Self, id)} :
        LET keep == {i \in DOMAIN transactions : transactions[i].id # id}
        IN  /\ Len(r.transactions) = Cardinality(keep)
            /\ \A k \in 1..Len(r.transactions) :
                 r.transactions[k] = transactions[Kth(keep, k)]
            /\ r.categories = categories
            /\ r.storage.categories = storage.categories
            /\ keep = DOMAIN transactions => r.transactions = transactions

C8_Witness ==
  /\ Ready
  /\ lastCall = "remove"
  /\ Len(transactions) = 1
  /\ transactions[1].id = 2
  /\ categories = <<"Food">>

\* C9: removing an identifier a second time changes nothing: sequence, stored
\* snapshot, rendered list and totals are those left by the first removal.
C9_RemoveIdempotent ==
  Ready =>
    \A id \in Ids :
      \A once \in {removeTransaction(Self, id)} :
        removeTransaction(once, id) = once

C9_Witness ==
  /\ Ready
  /\ lastCall = "remove"
  /\ Len(transactions) = 1
  /\ transactions[1].id = 1
  /\ storage.transactions.doc = transactions

\* C10: the rendered list has one entry for each transaction of the sequence,
\* in the order of the sequence.
C10_ListMirrorsSequence ==
  Ready =>
    /\ Len(list) = Len(transactions)
    /\ \A i \in DOMAIN transactions :
         /\ list[i].id = transactions[i].id
         /\ list[i].text = transactions[i].text
         /\ list[i].category = transactions[i].category
         /\ list[i].class = (IF JSLt0(transactions[i].amount) THEN "minus" ELSE "plus")
         /\ list[i].amount.num = toFixed2(MathAbs(transactions[i].amount))

C10_Witness ==
  /\ Ready
  /\ lastCall = "load"
  /\ Len(list) = 2
  /\ list[1].class = "minus"
  /\ list[2].class = "plus"

====
